---- MODULE Spec2Model ----
(***************************************************************************)
(* Transfer-function engine of the HDR image analyzer (jeffjose/hdr).      *)
(*                                                                         *)
(* The repository holds several revisions of the same modules side by      *)
(* side (the HLG module alone exists in six revisions).  Every revision is *)
(* modelled as its own operator, named after the file it lives in, and the *)
(* state machine below evaluates one revision on one input at a time.      *)
(*                                                                         *)
(* Numbers.  JavaScript Numbers are modelled as decimal fixed point with   *)
(* six fractional digits: the integer v stands for v / Scale.  Display     *)
(* luminance in nits is carried in milli-nits (NitScale).  Math.log,       *)
(* Math.exp, Math.pow and Math.sqrt are computed, not assumed: logarithm   *)
(* and exponential are evaluated by range reduction and power series with  *)
(* eight fractional digits (HScale) and rounded back to six.  All          *)
(* intermediate values stay inside the 32-bit integers of the checker.     *)
(* Equalities "within 1e-6" of the source are therefore checked to within  *)
(* the resolution of this arithmetic, which the tolerances below name.     *)
(* NaN and the two infinities are values outside the range of every       *)
(* number of the model; the arithmetic propagates them as IEEE 754 does.   *)
(***************************************************************************)
EXTENDS Integers, Sequences, FiniteSets, TLC

(***************************************************************************)
(* Fixed-point arithmetic                                                  *)
(***************************************************************************)
Scale == 10^6
Limb == 10^3
HScale == 10^8
HLimb == 10^4
NitScale == 10^3

\* the IEEE 754 values NaN, -Infinity and +Infinity, outside the range of
\* every number of the model
NaN == -(2 * 10^9)

NegInfinity == NaN + 1

PosInfinity == -NegInfinity

IsNumber(x) == x \notin {NaN, NegInfinity, PosInfinity}

\* a <= b of two Numbers: false when either is NaN
LE(a, b) == a # NaN /\ b # NaN /\ a <= b

Abs(x) == IF x < 0 THEN -x ELSE x

Sgn(x) == IF x < 0 THEN -1 ELSE 1

SgnOf(a, b) == IF (a < 0) # (b < 0) THEN -1 ELSE 1

\* Math.max and Math.min (NaN if either argument is NaN)
Max(x, y) == IF x = NaN \/ y = NaN THEN NaN ELSE IF x >= y THEN x ELSE y

Min(x, y) == IF x = NaN \/ y = NaN THEN NaN ELSE IF x <= y THEN x ELSE y

\* |t| / n rounded half up, sign restored (n a positive integer, not scaled)
RDiv(t, n) == Sgn(t) * ((Abs(t) + n \div 2) \div n)

\* a * b for two non-negative fixed-point numbers, by limbs of three digits
MulP(a, b) ==
    LET ah == a \div Limb
        al == a % Limb
        bh == b \div Limb
        bl == b % Limb
    IN  ah * bh + ((ah * bl + al * bh + ((al * bl + Limb \div 2) \div Limb)) \div Limb)

FMul(a, b) ==
    IF a = NaN \/ b = NaN THEN NaN
    ELSE IF ~IsNumber(a) \/ ~IsNumber(b)
    THEN (IF a = 0 \/ b = 0 THEN NaN
          ELSE IF SgnOf(a, b) < 0 THEN NegInfinity ELSE PosInfinity)
    ELSE SgnOf(a, b) * MulP(Abs(a), Abs(b))

\* a + b of Numbers
FAdd(a, b) ==
    IF a = NaN \/ b = NaN THEN NaN
    ELSE IF ~IsNumber(a) THEN (IF ~IsNumber(b) /\ a # b THEN NaN ELSE a)
    ELSE IF ~IsNumber(b) THEN b
    ELSE a + b

RECURSIVE LongDivStep(_, _, _, _)
LongDivStep(q, r, b, digits) ==
    IF digits = 0
    THEN q + (IF 2 * r >= b THEN 1 ELSE 0)
    ELSE LongDivStep(q * 10 + ((r * 10) \div b), (r * 10) % b, b, digits - 1)

\* a / b for non-negative a and positive b of the same scale, with `digits'
\* fractional decimal digits, rounded to nearest
LongDiv(a, b, digits) == LongDivStep(a \div b, a % b, b, digits)

FDiv(a, b) ==
    IF a = NaN \/ b = NaN THEN NaN
    ELSE IF ~IsNumber(a)
    THEN (IF ~IsNumber(b) THEN NaN
          ELSE IF SgnOf(a, b) < 0 THEN NegInfinity ELSE PosInfinity)
    ELSE IF ~IsNumber(b) THEN 0
    ELSE IF b = 0
    THEN (IF a = 0 THEN NaN ELSE IF a < 0 THEN NegInfinity ELSE PosInfinity)
    ELSE SgnOf(a, b) * LongDiv(Abs(a), Abs(b), 6)

\* the same two operations with eight fractional digits (magnitudes below 21)
HMulP(a, b) ==
    LET ah == a \div HLimb
        al == a % HLimb
        bh == b \div HLimb
        bl == b % HLimb
    IN  ah * bh + ((ah * bl) \div HLimb) + ((al * bh) \div HLimb) + ((al * bl) \div HScale)

HMul(a, b) == SgnOf(a, b) * HMulP(Abs(a), Abs(b))

HDiv(a, b) == SgnOf(a, b) * LongDiv(Abs(a), Abs(b), 8)

\* ln 2 with eight fractional digits
Ln2H == 69314718

\* lower end of the mantissa interval [0.7, 1.4) of the logarithm
LnLo == 7 * 10^5

\* magnitude at which an exponent saturates: exp(-21) is below every resolution
ExpSat == 21 * HScale

RECURSIVE NormUp(_, _)
NormUp(m, k) == IF m >= LnLo THEN <<m, k>> ELSE NormUp(2 * m, k - 1)

RECURSIVE NormDown(_, _, _)
NormDown(m, p, k) == IF m \div p < 2 * LnLo THEN <<p, k>> ELSE NormDown(m, 2 * p, k + 1)

RECURSIVE AtanhSeries(_, _, _, _)
AtanhSeries(t, z2, n, acc) ==
    IF n > 13 THEN acc
    ELSE AtanhSeries(HMul(t, z2), z2, n + 2, acc + RDiv(t, n))

\* Math.log: natural logarithm of x > 0 (six digits in, eight digits out).
\* x = m * 2^k with m in [0.7, 1.4);  ln m = 2 atanh((m - 1) / (m + 1))
LnH(x) ==
    LET up == NormUp(x, 0)
        dn == NormDown(up[1], 1, up[2])
        p  == dn[1]
        k  == dn[2]
        m8 == (up[1] \div p) * 100 + (((up[1] % p) * 100) \div p)
        d  == m8 - HScale
        z  == HDiv(Sgn(d) * (Abs(d) \div 2), (m8 + HScale) \div 2)
    IN  k * Ln2H + 2 * AtanhSeries(z, HMul(z, z), 1, 0)

RECURSIVE ExpSeries(_, _, _, _)
ExpSeries(t, r, n, acc) ==
    IF n > 13 THEN acc
    ELSE ExpSeries(RDiv(HMul(t, r), n), r, n + 1, acc + t)

\* Math.exp: exponential of y (eight digits in, six digits out).
\* y = k ln 2 + r with r in [0, ln 2);  exp y = 2^k * exp r
ExpH(y) ==
    IF y <= -ExpSat THEN 0
    ELSE LET k == y \div Ln2H
             r == y - k * Ln2H
             s == ExpSeries(HScale, r, 1, 0)
         IN  IF k >= 0
             THEN (s \div 100) * 2^k + (((s % 100) * 2^k + 50) \div 100)
             ELSE (s + 50 * 2^(-k)) \div (100 * 2^(-k))

\* y * l for y with six and l with eight fractional digits (result: eight),
\* saturating at ExpSat
MulSH(y, l) ==
    LET ya == Abs(y)
        la == Abs(l)
        yh == ya \div Limb
        yl == ya % Limb
        lh == la \div Limb
        ll == la % Limb
    IN  IF lh > ExpSat \div (yh + 1)
        THEN SgnOf(y, l) * ExpSat
        ELSE SgnOf(y, l) * (yh * lh + ((yh * ll) \div Limb) + ((yl * lh) \div Limb)
                            + ((yl * ll) \div Scale))

\* Math.log: NaN below zero and for NaN, -Infinity at zero
FLn(x) ==
    IF x = NaN \/ x < 0 THEN NaN
    ELSE IF x = 0 THEN NegInfinity
    ELSE IF x = PosInfinity THEN PosInfinity
    ELSE RDiv(LnH(x), 100)

\* Math.exp
FExp(y) ==
    IF y = NaN THEN NaN
    ELSE IF y = NegInfinity THEN 0
    ELSE IF y = PosInfinity THEN PosInfinity
    ELSE ExpH(y * 100)

\* Math.pow(x, y) for a finite exponent y: x^0 = 1, 0^y = 0 for y > 0 and
\* +Infinity for y < 0, exp(y ln x) for x > 0; a negative base gives NaN
\* unless the exponent is an integer
FPowPos(x, y) == ExpH(MulSH(y, LnH(x)))

FPow(x, y) ==
    IF y = 0 THEN Scale
    ELSE IF x = NaN THEN NaN
    ELSE IF x = PosInfinity THEN (IF y > 0 THEN PosInfinity ELSE 0)
    ELSE IF x = NegInfinity
    THEN (IF y < 0 THEN 0
          ELSE IF y % (2 * Scale) = Scale THEN NegInfinity ELSE PosInfinity)
    ELSE IF x = 0 THEN (IF y > 0 THEN 0 ELSE PosInfinity)
    ELSE IF x > 0 THEN FPowPos(x, y)
    ELSE IF y % Scale # 0 THEN NaN
    ELSE IF y % (2 * Scale) = 0 THEN FPowPos(-x, y)
    ELSE -FPowPos(-x, y)

RECURSIVE SqrtNewton(_, _)
SqrtNewton(a, r) ==
    LET n == (r + FDiv(a, r)) \div 2
    IN  IF n >= r THEN r ELSE SqrtNewton(a, n)

\* Math.sqrt: NaN below zero
FSqrt(a) ==
    IF a = NaN \/ a < 0 THEN NaN
    ELSE IF a = 0 THEN 0
    ELSE IF a = PosInfinity THEN PosInfinity
    ELSE SqrtNewton(a, Max(a, Scale))

(***************************************************************************)
(* sRGB (src/src/js/srgb.js)                                               *)
(***************************************************************************)
\* 12.92, 1.055, 0.055, 2.4 and 0.04045 with six digits.  The threshold
\* 0.0031308 lies between two six-digit numbers: x <= 0.0031308 holds of
\* 0.003130 and fails of 0.003131, so the comparison is with 0.003130.
sRGB_encodeThreshold == 3130

sRGB_slope == 12920000

sRGB_gain == 1055000

sRGB_offset == 55000

sRGB_gamma == 2400000

sRGB_decodeThreshold == 40450

sRGB_encode(linear) ==
    IF linear <= sRGB_encodeThreshold
    THEN FMul(sRGB_slope, linear)
    ELSE FMul(sRGB_gain, FPow(linear, FDiv(Scale, sRGB_gamma))) - sRGB_offset

\* a variant of sRGB.decode that switches segment at the threshold of encode
sRGB_decode_encodeThreshold(srgb) ==
    IF srgb <= sRGB_encodeThreshold
    THEN FDiv(srgb, sRGB_slope)
    ELSE FPow(FDiv(srgb + sRGB_offset, sRGB_gain), sRGB_gamma)

sRGB_decode(srgb) ==
    IF srgb <= sRGB_decodeThreshold
    THEN FDiv(srgb, sRGB_slope)
    ELSE FPow(FDiv(srgb + sRGB_offset, sRGB_gain), sRGB_gamma)

(***************************************************************************)
(* PQ, four revisions.  The constants are the source's, rounded half to    *)
(* even at six digits, which keeps c1 + c2 = 1 + c3.                       *)
(***************************************************************************)
PQ_m1 == 159302

PQ_m2 == 78843750

PQ_c1 == 835938

PQ_c2 == 18851562

PQ_c3 == 18687500

PQ_peakNits == 10000

PQRevs == {"histogram_ts", "script_js", "part_005", "part_009"}

\* a variant of the PQ formula that maps black to exactly zero
PQ_curve_blackIsZero(Y) ==
    LET Ym1 == FPow(Y, PQ_m1)
        numerator == PQ_c1 + FMul(PQ_c2, Ym1)
        denominator == Scale + FMul(PQ_c3, Ym1)
    IN  IF Y = 0 THEN 0 ELSE FPow(FDiv(numerator, denominator), PQ_m2)

\* the PQ formula proper, shared by every revision: Y -> ((c1+c2 Y^m1)/(1+c3 Y^m1))^m2
PQ_curve(Y) ==
    LET Ym1 == FPow(Y, PQ_m1)
        numerator == PQ_c1 + FMul(PQ_c2, Ym1)
        denominator == Scale + FMul(PQ_c3, Ym1)
    IN  FPow(FDiv(numerator, denominator), PQ_m2)

\* src/src/lib/histogram.ts: relative input (1.0 = 100 nits) scaled to the 10,000-nit range
PQ_encode_histogram_ts(linear) ==
    LET nits == FMul(linear, 100 * NitScale)
        Y == Max(0, FDiv(nits, PQ_peakNits * NitScale))
    IN  PQ_curve(Y)

\* src/script.js: the input is clamped to [0, 1] and not rescaled
PQ_encode_script_js(linear) == PQ_curve(Max(0, Min(Scale, linear)))

\* src/unnamed/part_005: the input is neither clamped above nor rescaled
PQ_encode_part_005(linear) == PQ_curve(Max(0, linear))

\* src/unnamed/part_009: linear * 0.01
PQ_encode_part_009(linear) == PQ_curve(Max(0, FMul(linear, Scale \div 100)))

PQ_encode(rev, linear) ==
    CASE rev = "histogram_ts" -> PQ_encode_histogram_ts(linear)
      [] rev = "script_js" -> PQ_encode_script_js(linear)
      [] rev = "part_005" -> PQ_encode_part_005(linear)
      [] rev = "part_009" -> PQ_encode_part_009(linear)

\* the inverse formula; `guarded' tells whether a non-positive denominator
\* (histogram.ts) or only a zero one (the other revisions) returns 0
PQ_inverse(E, guarded) ==
    LET Em2 == FPow(E, FDiv(Scale, PQ_m2))
        numerator == Max(0, Em2 - PQ_c1)
        denominator == PQ_c2 - FMul(PQ_c3, Em2)
    IN  IF (guarded /\ denominator <= 0) \/ denominator = 0
        THEN 0
        ELSE FPow(FDiv(numerator, denominator), FDiv(Scale, PQ_m1))

PQ_decode_histogram_ts(pq) ==
    LET E == Max(0, Min(Scale, pq))
        denominator == PQ_c2 - FMul(PQ_c3, FPow(E, FDiv(Scale, PQ_m2)))
        Y == PQ_inverse(E, TRUE)
        nits == FMul(Y, PQ_peakNits * NitScale)
    IN  IF denominator <= 0 THEN 0 ELSE FDiv(nits, 100 * NitScale)

PQ_decode_script_js(pq) == PQ_inverse(Max(0, Min(Scale, pq)), FALSE)

PQ_decode_part_005(pq) == PQ_inverse(Max(0, pq), FALSE)

PQ_decode_part_009(pq) ==
    LET E == Max(0, pq)
        denominator == PQ_c2 - FMul(PQ_c3, FPow(E, FDiv(Scale, PQ_m2)))
    IN  IF denominator = 0 THEN 0 ELSE FMul(PQ_inverse(E, FALSE), 100 * Scale)

PQ_decode(rev, pq) ==
    CASE rev = "histogram_ts" -> PQ_decode_histogram_ts(pq)
      [] rev = "script_js" -> PQ_decode_script_js(pq)
      [] rev = "part_005" -> PQ_decode_part_005(pq)
      [] rev = "part_009" -> PQ_decode_part_009(pq)

(***************************************************************************)
(* HLG, six revisions (one of them held by two files).  Four are revisions *)
(* of the module object `HLG' (encode, decode, signalToNits,               *)
(* nitsToSignal); two are revisions of `TransferFunctions.HLG' (encode,    *)
(* decode).                                                                *)
(***************************************************************************)
\* a = 0.17883277, b = 0.28466892, c = 0.55991073, systemGamma = 1.2
HLG_a == 178833

HLG_b == 284669

HLG_c == 559911

HLG_systemGamma == 1200000

\* src/unnamed/part_009 computes b = 1 - 4a and c = 0.5 - a ln(4a)
HLG_b_part_009 == Scale - 4 * HLG_a

HLG_c_part_009 == Scale \div 2 - FMul(HLG_a, FLn(4 * HLG_a))

\* the literal 1/12 of the source
OneTwelfth == FDiv(Scale, 12 * Scale)

HLGModuleRevs == {"hlgjs_1", "hlgjs_2", "part_006", "part_007"}

HLGRevs == HLGModuleRevs \cup {"part_009", "script_js", "part_005"}

\* src/src/js/hlg.js, first definition
HLG_encode_hlgjs_1(linear) ==
    IF LE(linear, 0) THEN 0
    ELSE IF LE(linear, Scale)
    THEN FMul(Scale \div 2, FSqrt(linear))
    ELSE FAdd(FAdd(FMul(HLG_a, FLn(FAdd(linear, -HLG_b))), HLG_c), Scale \div 2)

HLG_decode_hlgjs_1(hlg) ==
    IF hlg <= 0 THEN 0
    ELSE IF hlg <= (3 * Scale) \div 4
    THEN FPow(FDiv(hlg, Scale \div 2), 2 * Scale)
    ELSE FExp(FDiv(hlg - Scale \div 2 - HLG_c, HLG_a)) + HLG_b

\* src/src/js/hlg.js, second definition
HLG_encode_hlgjs_2(linear) ==
    IF LE(linear, 0) THEN 0
    ELSE IF LE(linear, Scale)
    THEN FDiv(FSqrt(linear), 2 * Scale)
    ELSE FAdd(FMul(HLG_a, FLn(FAdd(linear, -HLG_b))), HLG_c)

HLG_decode_hlgjs_2(hlg) ==
    IF hlg <= 0 THEN 0
    ELSE IF hlg <= Scale \div 2
    THEN FMul(4 * Scale, FPow(hlg, 2 * Scale))
    ELSE FExp(FDiv(hlg - HLG_c, HLG_a)) + HLG_b

\* src/unnamed/part_006
HLG_encode_part_006(linear) ==
    IF linear <= 0 THEN 0
    ELSE IF linear <= Scale
    THEN FSqrt(FDiv(linear, 3 * Scale))
    ELSE FAdd(FMul(HLG_a, FLn(linear - HLG_b)), HLG_c)

HLG_decode_part_006(hlg) ==
    IF hlg <= 0 THEN 0
    ELSE IF hlg <= Scale \div 2
    THEN FMul(3 * Scale, FPow(hlg, 2 * Scale))
    ELSE FExp(FDiv(hlg - HLG_c, HLG_a)) + HLG_b

\* src/unnamed/part_007
HLG_encode_part_007(linear) ==
    IF linear <= 0 THEN 0
    ELSE IF linear >= 12 * Scale THEN Scale
    ELSE LET E == FDiv(linear, 12 * Scale)
         IN  IF E <= OneTwelfth
             THEN FSqrt(FMul(3 * Scale, E))
             ELSE FAdd(FMul(HLG_a, FLn(FMul(12 * Scale, E) - HLG_b)), HLG_c)

HLG_decode_part_007(hlg) ==
    IF hlg <= 0 THEN 0
    ELSE LET E == IF hlg <= Scale \div 2
                  THEN FDiv(FPow(hlg, 2 * Scale), 3 * Scale)
                  ELSE FDiv(FExp(FDiv(hlg - HLG_c, HLG_a)) + HLG_b, 12 * Scale)
         IN  FMul(E, 12 * Scale)

\* src/unnamed/part_009, TransferFunctions.HLG: reads the global peakBrightness
HLG_encode_part_009(linear, peakBrightness) ==
    IF linear <= 0 THEN 0
    ELSE LET E == FDiv(FMul(linear, 100 * NitScale), peakBrightness * NitScale)
         IN  IF E <= OneTwelfth
             THEN FMul(FSqrt(3 * Scale), FPow(E, Scale \div 2))
             ELSE FAdd(FMul(HLG_a, FLn(FMul(12 * Scale, E) - HLG_b_part_009)),
                       HLG_c_part_009)

HLG_decode_part_009(hlg, peakBrightness) ==
    IF hlg < 0 THEN 0
    ELSE LET E == IF hlg <= Scale \div 2
                  THEN FDiv(FPow(hlg, 2 * Scale), 3 * Scale)
                  ELSE FDiv(FExp(FDiv(hlg - HLG_c_part_009, HLG_a)) + HLG_b_part_009,
                            12 * Scale)
         IN  FDiv(FMul(E, peakBrightness * NitScale), 100 * NitScale)

\* a variant of the encode of src/script.js whose logarithmic segment takes
\* the scene light unscaled, as the module revisions do
HLG_encode_script_js_unscaledLog(linear) ==
    IF linear <= 0 THEN 0
    ELSE IF linear <= OneTwelfth
    THEN FSqrt(FMul(3 * Scale, linear))
    ELSE FAdd(FMul(HLG_a, FLn(linear - HLG_b)), HLG_c)

\* src/script.js, TransferFunctions.HLG (src/unnamed/part_005 holds the same text)
HLG_encode_script_js(linear) ==
    IF linear <= 0 THEN 0
    ELSE IF linear <= OneTwelfth
    THEN FSqrt(FMul(3 * Scale, linear))
    ELSE FAdd(FMul(HLG_a, FLn(FMul(12 * Scale, linear) - HLG_b)), HLG_c)

HLG_decode_script_js(hlg) ==
    IF hlg <= 0 THEN 0
    ELSE IF hlg <= Scale \div 2
    THEN FDiv(FPow(hlg, 2 * Scale), 3 * Scale)
    ELSE FDiv(FExp(FDiv(hlg - HLG_c, HLG_a)) + HLG_b, 12 * Scale)

HLG_encode(rev, linear, peakBrightness) ==
    CASE rev = "hlgjs_1" -> HLG_encode_hlgjs_1(linear)
      [] rev = "hlgjs_2" -> HLG_encode_hlgjs_2(linear)
      [] rev = "part_006" -> HLG_encode_part_006(linear)
      [] rev = "part_007" -> HLG_encode_part_007(linear)
      [] rev = "part_009" -> HLG_encode_part_009(linear, peakBrightness)
      [] rev \in {"script_js", "part_005"} -> HLG_encode_script_js(linear)

HLG_decode(rev, hlg, peakBrightness) ==
    CASE rev = "hlgjs_1" -> HLG_decode_hlgjs_1(hlg)
      [] rev = "hlgjs_2" -> HLG_decode_hlgjs_2(hlg)
      [] rev = "part_006" -> HLG_decode_part_006(hlg)
      [] rev = "part_007" -> HLG_decode_part_007(hlg)
      [] rev = "part_009" -> HLG_decode_part_009(hlg, peakBrightness)
      [] rev \in {"script_js", "part_005"} -> HLG_decode_script_js(hlg)

\* src/unnamed/part_009, TransferFunctions.HLG.inverseEOTF: sets the global
\* peakBrightness to peakNits for the time of its call of encode and restores
\* it before returning, so encode runs with peakNits as its peak
HLG_inverseEOTF_part_009(normalizedBrightness, peakNits) ==
    LET sceneLight == FPow(normalizedBrightness, FDiv(Scale, HLG_systemGamma))
    IN  HLG_encode_part_009(FMul(sceneLight, FDiv(peakNits, 100)), peakNits)

\* signalToNits and nitsToSignal of the four module revisions.  The results
\* and arguments in nits are in milli-nits; peakBrightness is in nits.
HLG_signalToNits(rev, hlg, peakBrightness) ==
    LET sceneLight == HLG_decode(rev, hlg, peakBrightness)
    IN  CASE rev = "hlgjs_1" ->
               FMul(FPow(sceneLight, HLG_systemGamma), (peakBrightness * NitScale) \div 100)
          [] rev \in {"hlgjs_2", "part_006"} ->
               FMul(FPow(sceneLight, HLG_systemGamma), peakBrightness * NitScale)
          [] rev = "part_007" ->
               FMul(FPow(FDiv(sceneLight, 12 * Scale), HLG_systemGamma),
                    peakBrightness * NitScale)

\* a variant of nitsToSignal that undoes the peak scaling but not the system gamma
HLG_nitsToSignal_noGamma(rev, nits, peakBrightness) ==
    CASE rev = "hlgjs_1" ->
           HLG_encode(rev, FDiv(nits, (peakBrightness * NitScale) \div 100), peakBrightness)
      [] rev \in {"hlgjs_2", "part_006"} ->
           HLG_encode(rev, FDiv(nits, peakBrightness * NitScale), peakBrightness)
      [] rev = "part_007" ->
           HLG_encode(rev, FMul(FDiv(nits, peakBrightness * NitScale), 12 * Scale),
                      peakBrightness)

\* nitsToSignal: the peak scaling undone, then the system gamma, then encode
HLG_nitsToSignal(rev, nits, peakBrightness) ==
    LET invGamma == FDiv(Scale, HLG_systemGamma)
    IN  CASE rev = "hlgjs_1" ->
               HLG_encode(rev, FPow(FDiv(nits, (peakBrightness * NitScale) \div 100),
                                    invGamma), peakBrightness)
          [] rev \in {"hlgjs_2", "part_006"} ->
               HLG_encode(rev, FPow(FDiv(nits, peakBrightness * NitScale), invGamma),
                          peakBrightness)
          [] rev = "part_007" ->
               HLG_encode(rev, FMul(FPow(FDiv(nits, peakBrightness * NitScale), invGamma),
                                    12 * Scale), peakBrightness)

(***************************************************************************)
(* The evaluator.  A source unit is loaded; the peak-brightness selector   *)
(* may be changed; then a caller evaluates a chain of at most MaxCalls     *)
(* operations of one transfer function, the first on an input of its       *)
(* domain and each later one on the previous result.                       *)
(***************************************************************************)
\* rev: the source unit under evaluation; tf: the transfer function called;
\* peakBrightness: the peak-brightness setting in nits; calls: the operations
\* applied so far; arg: the input of the first call; value: the last result;
\* imageData: the loaded raster (<<>> is null); histogram: the histogram
\* computed from it (<<>> is null)
VARIABLES rev, tf, peakBrightness, calls, arg, value, imageData, histogram

\* The image loaders (src/script.js, src/src/js/url-loader.js).
\* imgSrc, imgOnload, imgOnerror: the src and the two handler properties of
\* the shared element uploadedImage; imgLoading: the fetch that element has
\* under way (<<>> when none); proxyLoading: per URL, the proxy images still
\* loading; readerLoading: per file, the FileReaders still reading; canvas:
\* the size and content of the canvas; loadBtnDisabled, urlError: the load
\* button and the error line; loaded: the URL whose load succeeded with no
\* load requested since (<<>> when none)
VARIABLES imgSrc, imgOnload, imgOnerror, imgLoading, proxyLoading,
          readerLoading, canvas, loadBtnDisabled, urlError, loaded

\* Hovering over the image (src/script.js, src/unnamed/part_011).
\* now: the clock, Date.now(), in ms; pointer: the pixel under the pointer
\* (<<>> when it is outside the image); currentHoverPixel, lastUpdateTime:
\* the globals of that name (<<>> is null); marker: the pixel the hover
\* traces of the graphs show (<<>> when there are none); frames: the
\* callbacks handed to requestAnimationFrame and not yet run, each with its
\* pixel; updateGraphTimeout: the deadline of the pending timer (<<>> when
\* none is pending); issuedAt: the times of the last two graph updates
\* made for a pointer movement
VARIABLES now, pointer, currentHoverPixel, marker, lastUpdateTime, frames,
          updateGraphTimeout, issuedAt

\* Persistence in localStorage (src/unnamed/part_009, src/unnamed/part_011).
\* page: "closed", "loading" (the script has been evaluated) or "open"
\* (DOMContentLoaded has been handled); sessions: the page loads so far;
\* stored: the entry 'hdr_analyzer_image' (<<>> when absent); storedMode:
\* the entry 'transferMode' (<<>> when absent); savedImageState: the result
\* of loadImageState (<<>> is null); readFailed: whether getItem threw in
\* that call; transferMode: the global of that name
VARIABLES page, sessions, stored, storedMode, savedImageState, readFailed,
          transferMode

\* The splitter between the panes (src/unnamed/part_009): the variables of
\* the same names; the ratios are fixed-point numbers
VARIABLES isDragging, currentLayout, sideSplitRatio, topSplitRatio

evalVars == <<rev, tf, peakBrightness, calls, arg, value>>

layoutVars == <<isDragging, currentLayout, sideSplitRatio, topSplitRatio>>

storageVars == <<page, sessions, stored, storedMode, savedImageState, readFailed,
                 transferMode>>

hoverVars == <<now, pointer, currentHoverPixel, marker, lastUpdateTime, frames,
               updateGraphTimeout, issuedAt>>

loaderVars == <<imgSrc, imgOnload, imgOnerror, imgLoading, proxyLoading,
                readerLoading, canvas, loadBtnDisabled, urlError, loaded>>

\* the state of the page, apart from the evaluator and the loaded raster
uiVars == <<loaderVars, hoverVars, storageVars, layoutVars>>

\* the images a user can point the page at: two URLs and one local file
Urls == {"u1", "u2"}

Files == {"f1"}

\* the page as the DOMContentLoaded handler leaves it: no image, no handler
\* on uploadedImage, nothing loading, an empty canvas of the default size
InitLoader ==
    /\ imgSrc = "none"
    /\ imgOnload = "none"
    /\ imgOnerror = "none"
    /\ imgLoading = <<>>
    /\ proxyLoading = [u \in Urls |-> 0]
    /\ readerLoading = [f \in Files |-> 0]
    /\ canvas = [width |-> 300, height |-> 150, content |-> "none"]
    /\ loadBtnDisabled = FALSE
    /\ urlError = "none"
    /\ loaded = <<>>

\* the clock when the page is loaded, in ms
StartTime == 1000

\* no pointer over the image, no hover marker, nothing scheduled
InitHover ==
    /\ now = StartTime
    /\ pointer = <<>>
    /\ currentHoverPixel = <<>>
    /\ marker = <<>>
    /\ lastUpdateTime = 0
    /\ frames = <<>>
    /\ updateGraphTimeout = <<>>
    /\ issuedAt = <<>>

\* an entry of localStorage that JSON.parse rejects
NotJSON == [parses |-> FALSE, name |-> "", timestamp |-> 0]

\* the page is not loaded yet; localStorage holds no transfer mode and, for
\* the image, one of entries
InitStorageFrom(entries) ==
    /\ page = "closed"
    /\ sessions = 0
    /\ stored \in entries
    /\ storedMode = <<>>
    /\ savedImageState = <<>>
    /\ readFailed = FALSE
    /\ transferMode = "eotf"

\* a profile that never held the page: localStorage is empty
InitStorage == InitStorageFrom({<<>>})

\* let isDragging = false; let currentLayout = 'side';
\* let sideSplitRatio = 0.5; let topSplitRatio = 0.5
InitLayout ==
    /\ isDragging = FALSE
    /\ currentLayout = "side"
    /\ sideSplitRatio = Scale \div 2
    /\ topSplitRatio = Scale \div 2

InitUI == InitLoader /\ InitHover /\ InitStorage /\ InitLayout

vars == <<evalVars, imageData, histogram, uiVars>>

\* number of grid intervals in each input domain
GridSteps == 48

\* number of grid intervals of the luminance inputs [0, peak]
NitSteps == 8

\* longest chain of operations
MaxCalls == 2

\* the options of the peak-brightness selector (nits)
PeakOptions == {100, 200, 400, 600, 1000, 2000, 4000, 10000}

SRGBRevs == {"srgb_js", "script_js", "part_005", "part_009"}

SourceUnits == SRGBRevs \cup PQRevs \cup HLGRevs

Provides(r) ==
    (IF r \in SRGBRevs THEN {"sRGB"} ELSE {})
    \cup (IF r \in PQRevs THEN {"PQ"} ELSE {})
    \cup (IF r \in HLGRevs THEN {"HLG"} ELSE {})

\* upper end of the valid linear domain of each transfer function
DomainMax(f) ==
    CASE f = "sRGB" -> Scale
      [] f = "PQ" -> 100 * Scale
      [] f = "HLG" -> 12 * Scale

Grid(top) == {((k * (top \div Limb)) \div GridSteps) * Limb : k \in 0..GridSteps}

\* values on both sides of the segment boundary of sRGB.encode and sRGB.decode
sRGBLinearEdge ==
    {Scale \div 10^3, 2 * (Scale \div 10^3), sRGB_encodeThreshold,
     sRGB_encodeThreshold + 1, 5 * (Scale \div 10^3)}

sRGBSignalEdge ==
    {Scale \div 100, 2 * (Scale \div 100), sRGB_decodeThreshold - 1,
     sRGB_decodeThreshold, sRGB_decodeThreshold + 1}

LinearInputs(f) ==
    Grid(DomainMax(f))
    \cup (IF f = "HLG" THEN {OneTwelfth, Scale \div 2, Scale, 5 * Scale, 12 * Scale}
          ELSE {Scale \div 100, Scale, DomainMax(f)})
    \cup (IF f = "sRGB" THEN sRGBLinearEdge ELSE {})

SignalInputs == Grid(Scale) \cup {Scale \div 2, Scale} \cup sRGBSignalEdge

NitsInputs(peak) == {(k * peak * NitScale) \div NitSteps : k \in 0..NitSteps}

Last(q) == q[Len(q)]

\* what the current value is, by the operation that produced it
Holds(kind) ==
    IF calls = <<>> THEN TRUE
    ELSE kind = (CASE Last(calls) \in {"encode", "nitsToSignal", "inverseEOTF"} -> "signal"
                   [] Last(calls) = "decode" -> "linear"
                   [] Last(calls) = "signalToNits" -> "nits")

EncodeOf(r, f, x, peak) ==
    CASE f = "sRGB" -> sRGB_encode(x)
      [] f = "PQ" -> PQ_encode(r, x)
      [] f = "HLG" -> HLG_encode(r, x, peak)

DecodeOf(r, f, s, peak) ==
    CASE f = "sRGB" -> sRGB_decode(s)
      [] f = "PQ" -> PQ_decode(r, s)
      [] f = "HLG" -> HLG_decode(r, s, peak)

Init ==
    /\ rev \in SourceUnits
    /\ tf = "none"
    /\ peakBrightness = 1000
    /\ calls = <<>>
    /\ arg = 0
    /\ value = 0
    /\ imageData = <<>>
    /\ histogram = <<>>
    /\ InitUI

\* the change handler of the peak-brightness selector
UpdatePeakBrightness ==
    /\ calls = <<>>
    /\ \E p \in PeakOptions : peakBrightness' = p
    /\ UNCHANGED <<rev, tf, calls, arg, value, imageData, histogram, uiVars>>

Encode ==
    /\ Len(calls) < MaxCalls
    /\ Holds("linear")
    /\ \E f \in (IF calls = <<>> THEN Provides(rev) ELSE {tf}) :
         \E x \in (IF calls = <<>> THEN LinearInputs(f) ELSE {value}) :
            /\ tf' = f
            /\ arg' = (IF calls = <<>> THEN x ELSE arg)
            /\ value' = EncodeOf(rev, f, x, peakBrightness)
    /\ calls' = Append(calls, "encode")
    /\ UNCHANGED <<rev, peakBrightness, imageData, histogram, uiVars>>

Decode ==
    /\ Len(calls) < MaxCalls
    /\ Holds("signal")
    /\ \E f \in (IF calls = <<>> THEN Provides(rev) ELSE {tf}) :
         \E s \in (IF calls = <<>> THEN SignalInputs ELSE {value}) :
            /\ tf' = f
            /\ arg' = (IF calls = <<>> THEN s ELSE arg)
            /\ value' = DecodeOf(rev, f, s, peakBrightness)
    /\ calls' = Append(calls, "decode")
    /\ UNCHANGED <<rev, peakBrightness, imageData, histogram, uiVars>>

SignalToNits ==
    /\ Len(calls) < MaxCalls
    /\ rev \in HLGModuleRevs
    /\ Holds("signal")
    /\ \E s \in (IF calls = <<>> THEN SignalInputs ELSE {value}) :
         /\ arg' = (IF calls = <<>> THEN s ELSE arg)
         /\ value' = HLG_signalToNits(rev, s, peakBrightness)
    /\ tf' = "HLG"
    /\ calls' = Append(calls, "signalToNits")
    /\ UNCHANGED <<rev, peakBrightness, imageData, histogram, uiVars>>

NitsToSignal ==
    /\ Len(calls) < MaxCalls
    /\ rev \in HLGModuleRevs
    /\ Holds("nits")
    /\ \E n \in (IF calls = <<>> THEN NitsInputs(peakBrightness) ELSE {value}) :
         /\ arg' = (IF calls = <<>> THEN n ELSE arg)
         /\ value' = HLG_nitsToSignal(rev, n, peakBrightness)
    /\ tf' = "HLG"
    /\ calls' = Append(calls, "nitsToSignal")
    /\ UNCHANGED <<rev, peakBrightness, imageData, histogram, uiVars>>

\* TransferFunctions.HLG.inverseEOTF of src/unnamed/part_009; on return the
\* global peakBrightness holds originalPeak again
InverseEOTF ==
    /\ calls = <<>>
    /\ rev = "part_009"
    /\ \E x \in Grid(Scale) :
         \E peakNits \in PeakOptions :
            /\ arg' = x
            /\ value' = HLG_inverseEOTF_part_009(x, peakNits)
    /\ tf' = "HLG"
    /\ calls' = <<"inverseEOTF">>
    /\ UNCHANGED <<rev, peakBrightness, imageData, histogram, uiVars>>

Next ==
    \/ UpdatePeakBrightness
    \/ Encode
    \/ Decode
    \/ SignalToNits
    \/ NitsToSignal
    \/ InverseEOTF

Spec == Init /\ [][Next]_vars

(***************************************************************************)
(* The same functions called once on any real input, inside or outside     *)
(* the valid domain: nothing in the source restricts the argument of an    *)
(* exported function.                                                      *)
(***************************************************************************)
\* linear inputs outside the valid domain: below zero and above its top
OutsideLinear(f) ==
    {-(Scale \div 2), -(Scale \div 10^3), -1, DomainMax(f) + 1, 2 * DomainMax(f)}

\* signals outside [0, 1], chosen per function so that every result stays
\* within the range of the arithmetic
OutsideSignal(f) ==
    {-(Scale \div 2), -1, Scale + 1}
    \cup (CASE f = "sRGB" -> {(3 * Scale) \div 2}
            [] f = "PQ" -> {(6 * Scale) \div 5, (5 * Scale) \div 2, 3 * Scale}
            [] f = "HLG" -> {(5 * Scale) \div 4})

\* the smallest positive number and the first number above each value at
\* which a revision of HLG.encode switches to its logarithmic segment
SegmentEdges == {1, OneTwelfth + 1, Scale + 1}

EncodeAnyInput ==
    /\ calls = <<>>
    /\ \E f \in Provides(rev) :
         \E x \in LinearInputs(f) \cup OutsideLinear(f) \cup SegmentEdges :
            /\ tf' = f
            /\ arg' = x
            /\ value' = EncodeOf(rev, f, x, peakBrightness)
    /\ calls' = <<"encode">>
    /\ UNCHANGED <<rev, peakBrightness, imageData, histogram, uiVars>>

DecodeAnyInput ==
    /\ calls = <<>>
    /\ \E f \in Provides(rev) :
         \E x \in SignalInputs \cup OutsideSignal(f) :
            /\ tf' = f
            /\ arg' = x
            /\ value' = DecodeOf(rev, f, x, peakBrightness)
    /\ calls' = <<"decode">>
    /\ UNCHANGED <<rev, peakBrightness, imageData, histogram, uiVars>>

\* peakBrightness arguments that are no brightness: zero and below
InvalidPeaks == {0, -100, -1000}

\* luminances in milli-nits handed to nitsToSignal: 0, 1, 100 and 1000 nits
AnyNits == {0, NitScale, 100 * NitScale, 1000 * NitScale}

\* a caller of the HLG module passes any number as the peakBrightness
\* parameter of signalToNits and nitsToSignal
PassPeakBrightness ==
    /\ calls = <<>>
    /\ rev \in {"hlgjs_1", "hlgjs_2"}
    /\ \E p \in InvalidPeaks : peakBrightness' = p
    /\ UNCHANGED <<rev, tf, calls, arg, value, imageData, histogram, uiVars>>

SignalToNitsAnyInput ==
    /\ calls = <<>>
    /\ rev \in {"hlgjs_1", "hlgjs_2"}
    /\ \E s \in SignalInputs :
         /\ arg' = s
         /\ value' = HLG_signalToNits(rev, s, peakBrightness)
    /\ tf' = "HLG"
    /\ calls' = <<"signalToNits">>
    /\ UNCHANGED <<rev, peakBrightness, imageData, histogram, uiVars>>

NitsToSignalAnyInput ==
    /\ calls = <<>>
    /\ rev \in {"hlgjs_1", "hlgjs_2"}
    /\ \E n \in AnyNits :
         /\ arg' = n
         /\ value' = HLG_nitsToSignal(rev, n, peakBrightness)
    /\ tf' = "HLG"
    /\ calls' = <<"nitsToSignal">>
    /\ UNCHANGED <<rev, peakBrightness, imageData, histogram, uiVars>>

NextAnyInput ==
    \/ UpdatePeakBrightness
    \/ EncodeAnyInput
    \/ DecodeAnyInput
    \/ PassPeakBrightness
    \/ SignalToNitsAnyInput
    \/ NitsToSignalAnyInput

SpecAnyInput == Init /\ [][NextAnyInput]_vars

(***************************************************************************)
(* The histogram engine, three revisions of calculateHistogram:            *)
(* src/script.js and src/unnamed/part_011 (100 bins over linear light, in  *)
(* percent) and src/src/lib/histogram.ts (256 bins over the encoded bytes, *)
(* as fractions).  A raster is a record of width, height and data; data    *)
(* holds one <<r, g, b>> triple of bytes per pixel (the alpha byte is      *)
(* never read).  Bytes and counts are integers; a quotient of two of them  *)
(* and every normalized bin is a Number of the model.                      *)
(***************************************************************************)
HistogramRevs == {"script_js", "part_011", "histogram_ts"}

\* largest width, height and number of pixels of a raster
MaxWidth == 2

MaxHeight == 2

MaxPixels == 4

\* the colours a pixel is drawn from: black, white, two greys and red
Palette == {<<0, 0, 0>>, <<255, 255, 255>>, <<128, 128, 128>>, <<64, 64, 64>>, <<255, 0, 0>>}

Shapes == {sh \in (0..MaxWidth) \X (0..MaxHeight) : sh[1] * sh[2] <= MaxPixels}

\* every ImageData has data.length = 4 * width * height
Images ==
    UNION {{[width |-> sh[1], height |-> sh[2], data |-> d] :
                d \in [1..(sh[1] * sh[2]) -> Palette]} : sh \in Shapes}

\* Math.floor and Math.round of a non-negative Number, as an integer
Floor(x) == x \div Scale

Round(x) == (x + Scale \div 2) \div Scale

ByteMax == 255

bins_script_js == 100

bins_histogram_ts == 256

\* BT.709 weights of src/script.js and BT.601 weights of histogram.ts
BT709_R == 212600

BT709_G == 715200

BT709_B == 72200

BT601_R == 299000

BT601_G == 587000

BT601_B == 114000

\* data[i] / 255 converted to linear light
linear_script_js(byte) == sRGB_decode(FDiv(byte, ByteMax))

luminance_script_js(px) ==
    FAdd(FAdd(FMul(BT709_R, linear_script_js(px[1])),
              FMul(BT709_G, linear_script_js(px[2]))),
         FMul(BT709_B, linear_script_js(px[3])))

\* a variant of the bin index without the clamp to the last bin
binIndex_script_js_unclamped(v) == Floor(FMul(v, bins_script_js * Scale))

\* Math.min(Math.floor(v * bins), bins - 1)
binIndex_script_js(v) == Min(Floor(FMul(v, bins_script_js * Scale)), bins_script_js - 1)

luminance_histogram_ts(px) ==
    Round(FAdd(FAdd(FMul(BT601_R, px[1] * Scale), FMul(BT601_G, px[2] * Scale)),
               FMul(BT601_B, px[3] * Scale)))

\* the array after `array[index[i]]++' for every pixel i, starting from
\* `new Array(bins).fill(0)': an index past the end extends the array with
\* an element that ++ turns from undefined into NaN
Tally(index, bins) ==
    LET hit(k) == {i \in DOMAIN index : index[i] = k}
        used == {index[i] : i \in DOMAIN index}
        top == IF \E i \in DOMAIN index : index[i] >= bins
               THEN CHOOSE k \in {index[i] : i \in DOMAIN index} :
                        \A i \in DOMAIN index : index[i] <= k
               ELSE bins - 1
    IN  [k \in 0..top |-> IF k \notin used THEN 0
                          ELSE IF k >= bins THEN NaN
                          ELSE Cardinality(hit(k))]

\* a variant of normalize that divides by data.length instead of width * height
normalize_script_js_byLength(hist, img) ==
    [k \in DOMAIN hist |->
        FMul(FDiv(hist[k], 4 * Len(img.data)), 100 * Scale)]

\* (count / totalPixels) * 100
normalize_script_js(hist, img) ==
    [k \in DOMAIN hist |->
        FMul(FDiv(hist[k], img.width * img.height), 100 * Scale)]

\* v / pixelCount
normalize_histogram_ts(hist, img) ==
    [k \in DOMAIN hist |-> FDiv(hist[k], img.width * img.height)]

calculateHistogram_script_js(img) ==
    LET px == img.data
        binR == [i \in DOMAIN px |-> binIndex_script_js(linear_script_js(px[i][1]))]
        binG == [i \in DOMAIN px |-> binIndex_script_js(linear_script_js(px[i][2]))]
        binB == [i \in DOMAIN px |-> binIndex_script_js(linear_script_js(px[i][3]))]
        binL == [i \in DOMAIN px |-> binIndex_script_js(luminance_script_js(px[i]))]
    IN  [r |-> normalize_script_js(Tally(binR, bins_script_js), img),
         g |-> normalize_script_js(Tally(binG, bins_script_js), img),
         b |-> normalize_script_js(Tally(binB, bins_script_js), img),
         luminance |-> normalize_script_js(Tally(binL, bins_script_js), img),
         bins |-> bins_script_js]

calculateHistogram_histogram_ts(img) ==
    LET px == img.data
        red == [i \in DOMAIN px |-> px[i][1]]
        green == [i \in DOMAIN px |-> px[i][2]]
        blue == [i \in DOMAIN px |-> px[i][3]]
        lum == [i \in DOMAIN px |-> luminance_histogram_ts(px[i])]
    IN  [r |-> normalize_histogram_ts(Tally(red, bins_histogram_ts), img),
         g |-> normalize_histogram_ts(Tally(green, bins_histogram_ts), img),
         b |-> normalize_histogram_ts(Tally(blue, bins_histogram_ts), img),
         luminance |-> normalize_histogram_ts(Tally(lum, bins_histogram_ts), img)]

\* src/unnamed/part_011 holds the text of src/script.js, typed
calculateHistogram(r, img) ==
    CASE r \in {"script_js", "part_011"} -> calculateHistogram_script_js(img)
      [] r = "histogram_ts" -> calculateHistogram_histogram_ts(img)

InitHistogram ==
    /\ rev \in HistogramRevs
    /\ tf = "none"
    /\ peakBrightness = 1000
    /\ calls = <<>>
    /\ arg = 0
    /\ value = 0
    /\ imageData = <<>>
    /\ histogram = <<>>
    /\ InitUI

\* the load handler: imageData = ctx.getImageData(...); histogram =
\* calculateHistogram(imageData).  The result depends on the loaded raster
\* only, so one load per behaviour reaches every result.
CalculateHistogram ==
    /\ histogram = <<>>
    /\ \E img \in Images :
         /\ imageData' = <<img>>
         /\ histogram' = <<calculateHistogram(rev, img)>>
    /\ UNCHANGED <<evalVars, uiVars>>

NextHistogram == CalculateHistogram

SpecHistogram == InitHistogram /\ [][NextHistogram]_vars

(***************************************************************************)
(* The image loaders of src/script.js (test patterns, sample images, file  *)
(* upload) and of src/src/js/url-loader.js (load from a URL).  All of them *)
(* write the globals imageData and histogram and share the one element     *)
(* uploadedImage.  A raster is here a record of its width, its height and  *)
(* the image it was read from, and a histogram is named by the raster it   *)
(* was computed from.  A handler runs to completion; between two handlers  *)
(* the browser may deliver any pending event.  Assigning the src of an     *)
(* image element abandons the fetch it had under way and starts a new one, *)
(* whose load or error event goes to whatever handler the element holds    *)
(* when the event is delivered.                                            *)
(***************************************************************************)
\* const width = 512; const height = 512 of the two generators
PatternWidth == 512

PatternHeight == 512

\* naturalWidth and naturalHeight of each image
NaturalSize(src) ==
    CASE src = "u1" -> <<800, 600>>
      [] src = "u2" -> <<PatternWidth, PatternHeight>>
      [] src = "f1" -> <<640, 480>>
      [] src = "pattern" -> <<PatternWidth, PatternHeight>>

\* most proxy images per URL and FileReaders per file at work at a time
MaxInFlight == 2

\* canvas.width = w; canvas.height = h; drawing of the image src
Drawn(src, w, h) == [width |-> w, height |-> h, content |-> src]

\* ctx.getImageData(0, 0, w, h)
GetImageData(cv, w, h) == [width |-> w, height |-> h, content |-> cv.content]

\* calculateHistogram(raster), named by its argument
HistogramOf(raster) == [raster |-> raster]

\* img.src = src on uploadedImage, for the reason `why'
Fetch(src, why) == <<[src |-> src, why |-> why]>>

notLoaderVars == <<evalVars, hoverVars, storageVars, layoutVars>>

\* generateTestPattern and generateSampleImage: draw on the canvas, show the
\* drawing in uploadedImage and leave a load handler on it
GenerateTestPattern ==
    /\ canvas' = Drawn("pattern", PatternWidth, PatternHeight)
    /\ imgSrc' = "pattern"
    /\ imgLoading' = Fetch("pattern", "pattern")
    /\ imgOnload' = "pattern"
    /\ loaded' = <<>>
    /\ UNCHANGED <<imgOnerror, proxyLoading, readerLoading, loadBtnDisabled, urlError,
                   imageData, histogram, notLoaderVars>>

\* handleImageUpload: reader.readAsDataURL(file)
HandleImageUpload ==
    /\ \E f \in Files :
         /\ readerLoading[f] < MaxInFlight
         /\ readerLoading' = [readerLoading EXCEPT ![f] = @ + 1]
    /\ loaded' = <<>>
    /\ UNCHANGED <<imgSrc, imgOnload, imgOnerror, imgLoading, proxyLoading, canvas,
                   loadBtnDisabled, urlError, imageData, histogram, notLoaderVars>>

\* reader.onload: img.onload = ...; img.src = e.target.result
ReaderOnload ==
    /\ \E f \in Files :
         /\ readerLoading[f] > 0
         /\ readerLoading' = [readerLoading EXCEPT ![f] = @ - 1]
         /\ imgSrc' = f
         /\ imgLoading' = Fetch(f, "file")
    /\ imgOnload' = "upload"
    /\ UNCHANGED <<imgOnerror, proxyLoading, canvas, loadBtnDisabled, urlError, loaded,
                   imageData, histogram, notLoaderVars>>

\* loadImageFromURL with a blank url: the error line is set and nothing else
LoadBlankURL ==
    /\ urlError' = "blank"
    /\ UNCHANGED <<imgSrc, imgOnload, imgOnerror, imgLoading, proxyLoading, readerLoading,
                   canvas, loadBtnDisabled, loaded, imageData, histogram, notLoaderVars>>

\* loadImageFromURL with a url, from the button or from the Enter key: the
\* button is disabled and a new proxy image starts loading
LoadImageFromURL ==
    /\ \E u \in Urls :
         /\ proxyLoading[u] < MaxInFlight
         /\ proxyLoading' = [proxyLoading EXCEPT ![u] = @ + 1]
    /\ urlError' = "none"
    /\ loadBtnDisabled' = TRUE
    /\ loaded' = <<>>
    /\ UNCHANGED <<imgSrc, imgOnload, imgOnerror, imgLoading, readerLoading, canvas,
                   imageData, histogram, notLoaderVars>>

\* proxyImg.onload: show the image, draw it at its natural size, read the
\* raster, compute the histogram, enable the button
ProxyOnload ==
    /\ \E u \in Urls :
         /\ proxyLoading[u] > 0
         /\ proxyLoading' = [proxyLoading EXCEPT ![u] = @ - 1]
         /\ imgSrc' = u
         /\ imgLoading' = Fetch(u, "display")
         /\ canvas' = Drawn(u, NaturalSize(u)[1], NaturalSize(u)[2])
         /\ imageData' = <<GetImageData(canvas', canvas'.width, canvas'.height)>>
         /\ histogram' = <<HistogramOf(imageData'[1])>>
         /\ loaded' = <<u>>
    /\ loadBtnDisabled' = FALSE
    /\ UNCHANGED <<imgOnload, imgOnerror, readerLoading, urlError, notLoaderVars>>

\* proxyImg.onerror: put the fallback handlers on uploadedImage and load
\* the url in it without CORS
ProxyOnerror ==
    /\ \E u \in Urls :
         /\ proxyLoading[u] > 0
         /\ proxyLoading' = [proxyLoading EXCEPT ![u] = @ - 1]
         /\ imgSrc' = u
         /\ imgLoading' = Fetch(u, "fallback")
    /\ imgOnerror' = "fallback"
    /\ imgOnload' = "fallback"
    /\ UNCHANGED <<readerLoading, canvas, loadBtnDisabled, urlError, loaded,
                   imageData, histogram, notLoaderVars>>

\* the load event of uploadedImage, delivered to the handler it holds:
\* none; the handler of a generator (reads PatternWidth x PatternHeight
\* from the canvas as it is now); the handler of an upload (draws the
\* element at its natural size and reads it; for an image from another
\* origin the read may throw, after the drawing); the fallback handler
ImgLoad ==
    /\ imgLoading # <<>>
    /\ imgLoading' = <<>>
    /\ CASE imgOnload = "none" ->
              UNCHANGED <<canvas, imageData, histogram, loadBtnDisabled, urlError>>
         [] imgOnload = "pattern" ->
              /\ imageData' = <<GetImageData(canvas, PatternWidth, PatternHeight)>>
              /\ histogram' = <<HistogramOf(imageData'[1])>>
              /\ UNCHANGED <<canvas, loadBtnDisabled, urlError>>
         [] imgOnload = "upload" ->
              /\ canvas' = Drawn(imgSrc, NaturalSize(imgSrc)[1], NaturalSize(imgSrc)[2])
              /\ \/ /\ imageData' = <<GetImageData(canvas', canvas'.width, canvas'.height)>>
                    /\ histogram' = <<HistogramOf(imageData'[1])>>
                 \/ /\ imgSrc \in Urls
                    /\ UNCHANGED <<imageData, histogram>>
              /\ UNCHANGED <<loadBtnDisabled, urlError>>
         [] imgOnload = "fallback" ->
              /\ urlError' = "cors"
              /\ loadBtnDisabled' = FALSE
              /\ UNCHANGED <<canvas, imageData, histogram>>
    /\ UNCHANGED <<imgSrc, imgOnload, imgOnerror, proxyLoading, readerLoading, loaded,
                   notLoaderVars>>

\* the error event of uploadedImage (a url that cannot be fetched, a file
\* that is no image), delivered to the handler it holds
ImgError ==
    /\ imgLoading # <<>>
    /\ imgLoading[1].why \in {"fallback", "file"}
    /\ imgLoading' = <<>>
    /\ IF imgOnerror = "fallback"
       THEN urlError' = "failed" /\ loadBtnDisabled' = FALSE
       ELSE UNCHANGED <<urlError, loadBtnDisabled>>
    /\ UNCHANGED <<imgSrc, imgOnload, imgOnerror, proxyLoading, readerLoading, canvas,
                   loaded, imageData, histogram, notLoaderVars>>

InitLoaderSpec ==
    /\ rev = "script_js"
    /\ tf = "none"
    /\ peakBrightness = 1000
    /\ calls = <<>>
    /\ arg = 0
    /\ value = 0
    /\ imageData = <<>>
    /\ histogram = <<>>
    /\ InitUI

NextLoader ==
    \/ GenerateTestPattern
    \/ HandleImageUpload
    \/ ReaderOnload
    \/ LoadBlankURL
    \/ LoadImageFromURL
    \/ ProxyOnload
    \/ ProxyOnerror
    \/ ImgLoad
    \/ ImgError

SpecLoader == InitLoaderSpec /\ [][NextLoader]_vars

(***************************************************************************)
(* Hovering over the image, two revisions: the mousemove and mouseleave    *)
(* listeners of src/script.js, which hand the graph update to              *)
(* requestAnimationFrame, and handleImageHover / handleImageLeave of       *)
(* src/unnamed/part_011, which update at once or through a timer.  Time is *)
(* a clock in ms that advances between handlers; a callback runs at any    *)
(* time from its due time on.                                              *)
(***************************************************************************)
HoverRevs == {"script_js", "part_011"}

\* const THROTTLE_DELAY = 16 (the literal 16 of src/script.js)
THROTTLE_DELAY == 16

\* the pixels of the image the pointer visits
HoverPixels == {1, 2}

\* the amounts of time, in ms, that pass between two handlers
TimeSteps == {1, 9, 17}

\* the span of time observed, in ms
MaxTime == 36

notHoverVars == <<evalVars, imageData, histogram, loaderVars, storageVars,
                  layoutVars>>

\* a graph update made for a pointer movement is issued now
Issue == IF issuedAt = <<>> THEN <<now>> ELSE <<Last(issuedAt), now>>

Tick ==
    /\ \E d \in TimeSteps :
         /\ now + d <= StartTime + MaxTime
         /\ now' = now + d
    /\ UNCHANGED <<pointer, currentHoverPixel, marker, lastUpdateTime, frames,
                   updateGraphTimeout, issuedAt, notHoverVars>>

\* a mousemove over a pixel of the image
MouseMove ==
    /\ imageData # <<>>
    /\ \E p \in HoverPixels :
         /\ pointer' = <<p>>
         /\ IF rev = "script_js"
            THEN /\ IF now - lastUpdateTime > THROTTLE_DELAY
                    THEN /\ lastUpdateTime' = now
                         /\ frames' = Append(frames, p)
                    ELSE UNCHANGED <<lastUpdateTime, frames>>
                 /\ UNCHANGED <<currentHoverPixel, marker, updateGraphTimeout, issuedAt>>
            ELSE /\ currentHoverPixel' = <<p>>
                 /\ IF now - lastUpdateTime > THROTTLE_DELAY
                    THEN /\ lastUpdateTime' = now
                         /\ marker' = <<p>>
                         /\ issuedAt' = Issue
                         /\ UNCHANGED updateGraphTimeout
                    ELSE /\ updateGraphTimeout' = <<now + THROTTLE_DELAY>>
                         /\ UNCHANGED <<lastUpdateTime, marker, issuedAt>>
                 /\ UNCHANGED frames
    /\ UNCHANGED <<now, notHoverVars>>

\* the pointer leaves the image
MouseLeave ==
    /\ pointer # <<>>
    /\ pointer' = <<>>
    /\ currentHoverPixel' = <<>>
    /\ marker' = <<>>
    /\ updateGraphTimeout' = (IF rev = "script_js" THEN updateGraphTimeout ELSE <<>>)
    /\ UNCHANGED <<now, lastUpdateTime, frames, issuedAt, notHoverVars>>

\* src/script.js: the browser runs the oldest requestAnimationFrame
\* callback, highlightPixelOnGraphs(pixel)
AnimationFrame ==
    /\ frames # <<>>
    /\ currentHoverPixel' = <<Head(frames)>>
    /\ marker' = <<Head(frames)>>
    /\ issuedAt' = Issue
    /\ frames' = Tail(frames)
    /\ UNCHANGED <<now, pointer, lastUpdateTime, updateGraphTimeout, notHoverVars>>

\* src/unnamed/part_011: the timer set by handleImageHover is due:
\* updateGraphsWithHover(); lastUpdateTime = Date.now()
HoverTimeout ==
    /\ updateGraphTimeout # <<>>
    /\ now >= updateGraphTimeout[1]
    /\ updateGraphTimeout' = <<>>
    /\ lastUpdateTime' = now
    /\ IF currentHoverPixel # <<>>
       THEN marker' = currentHoverPixel /\ issuedAt' = Issue
       ELSE UNCHANGED <<marker, issuedAt>>
    /\ UNCHANGED <<now, pointer, currentHoverPixel, frames, notHoverVars>>

\* an image has been loaded and the page is otherwise at rest
InitHoverSpec ==
    /\ rev \in HoverRevs
    /\ tf = "none"
    /\ peakBrightness = 1000
    /\ calls = <<>>
    /\ arg = 0
    /\ value = 0
    /\ imageData = <<GetImageData(Drawn("pattern", PatternWidth, PatternHeight),
                                  PatternWidth, PatternHeight)>>
    /\ histogram = <<HistogramOf(imageData[1])>>
    /\ InitUI

NextHover ==
    \/ Tick
    \/ MouseMove
    \/ MouseLeave
    \/ AnimationFrame
    \/ HoverTimeout

SpecHover == InitHoverSpec /\ [][NextHover]_vars

(***************************************************************************)
(* Persistence (src/unnamed/part_009; the transfer mode also in            *)
(* src/unnamed/part_011): the last image and the transfer mode are kept in *)
(* localStorage and read back when the page is loaded again.  The clock is *)
(* Date.now() in ms; between two loads of the page any of SessionGaps      *)
(* passes.                                                                 *)
(***************************************************************************)
StorageRevs == {"part_009", "part_011"}

\* const sevenDaysMs = 7 * 24 * 60 * 60 * 1000
sevenDaysMs == 7 * 24 * 60 * 60 * 1000

\* the time between closing the page and loading it again: none, half of
\* seven days, and one ms more than that
SessionGaps == {0, sevenDaysMs \div 2, sevenDaysMs \div 2 + 1}

\* the most loads of the page
MaxSessions == 3

ImageNames == {"a.png", "b.png"}

TransferModes == {"oetf", "eotf"}

notStorageVars == <<evalVars, imageData, histogram, loaderVars,
                    pointer, currentHoverPixel, marker, lastUpdateTime, frames,
                    updateGraphTimeout, issuedAt, layoutVars>>

\* a variant of loadImageState that returns the entry whatever its age
loadImageState_noExpiry(entry, t, readable) ==
    IF ~readable THEN [value |-> <<>>, storage |-> entry]
    ELSE IF entry = <<>> THEN [value |-> <<>>, storage |-> entry]
    ELSE IF ~entry[1].parses THEN [value |-> <<>>, storage |-> entry]
    ELSE [value |-> entry, storage |-> entry]

\* loadImageState at time t: the value returned and the entry left in
\* localStorage.  getItem throws when the storage is not readable, and
\* JSON.parse throws on an entry that is no JSON text; both are caught.
loadImageState(entry, t, readable) ==
    IF ~readable THEN [value |-> <<>>, storage |-> entry]
    ELSE IF entry = <<>> THEN [value |-> <<>>, storage |-> entry]
    ELSE IF ~entry[1].parses THEN [value |-> <<>>, storage |-> entry]
    ELSE IF t - entry[1].timestamp > sevenDaysMs
    THEN [value |-> <<>>, storage |-> <<>>]
    ELSE [value |-> entry, storage |-> entry]

\* a variant of the initializer of transferMode that ignores localStorage
initialTransferMode_default(entry) == "eotf"

\* localStorage.getItem('transferMode') || 'eotf'
initialTransferMode(entry) == IF entry # <<>> THEN entry[1] ELSE "eotf"

\* the page is loaded: the script is evaluated and transferMode initialized
LoadPage ==
    /\ page = "closed"
    /\ sessions < MaxSessions
    /\ sessions' = sessions + 1
    /\ page' = "loading"
    /\ transferMode' = initialTransferMode(storedMode)
    /\ UNCHANGED <<now, stored, storedMode, savedImageState, readFailed,
                   notStorageVars>>

\* the DOMContentLoaded handler: const savedImageState = loadImageState()
DOMContentLoaded ==
    /\ page = "loading"
    /\ page' = "open"
    /\ \E readable \in BOOLEAN :
         LET res == loadImageState(stored, now, readable)
         IN  /\ savedImageState' = res.value
             /\ stored' = res.storage
             /\ readFailed' = ~readable
    /\ UNCHANGED <<now, sessions, storedMode, transferMode, notStorageVars>>

\* saveImageState after a load: the entry is written with timestamp
\* Date.now(), or setItem throws (quota) and the entry stays
SaveImageState ==
    /\ page = "open"
    /\ \E n \in ImageNames :
         \/ stored' = <<[parses |-> TRUE, name |-> n, timestamp |-> now]>>
         \/ UNCHANGED stored
    /\ UNCHANGED <<now, page, sessions, storedMode, savedImageState, readFailed,
                   transferMode, notStorageVars>>

\* the click handlers of oetfMode and eotfMode; toggleTransferMode(mode).
\* The four characters of the mode are taken to fit into the storage.
ToggleTransferMode ==
    /\ page = "open"
    /\ \E mode \in TransferModes :
         /\ transferMode' = mode
         /\ storedMode' = <<mode>>
    /\ UNCHANGED <<now, page, sessions, stored, savedImageState, readFailed,
                   notStorageVars>>

\* the page is closed; time passes before it is loaded again
ClosePage ==
    /\ page = "open"
    /\ page' = "closed"
    /\ \E d \in SessionGaps : now' = now + d
    /\ UNCHANGED <<sessions, stored, storedMode, savedImageState, readFailed,
                   transferMode, notStorageVars>>

\* the image entry of the profile is absent or was left as text that is no
\* JSON
InitStorageSpec ==
    /\ rev \in StorageRevs
    /\ tf = "none"
    /\ peakBrightness = 1000
    /\ calls = <<>>
    /\ arg = 0
    /\ value = 0
    /\ imageData = <<>>
    /\ histogram = <<>>
    /\ InitLoader
    /\ InitHover
    /\ InitStorageFrom({<<>>, <<NotJSON>>})
    /\ InitLayout

NextStorage ==
    \/ LoadPage
    \/ DOMContentLoaded
    \/ SaveImageState
    \/ ToggleTransferMode
    \/ ClosePage

SpecStorage == InitStorageSpec /\ [][NextStorage]_vars

(***************************************************************************)
(* Layout switcher and splitter (src/unnamed/part_009).  The pane styles   *)
(* that updatePaneSizes and setLayout write are functions of the ratios    *)
(* and of the layout, and are not carried as state.                        *)
(***************************************************************************)
\* e.clientX - containerRect.left, e.clientY - containerRect.top in px: the
\* pointer may be anywhere in the window, also outside the container
MouseOffsets == {-40, 0, 150, 200, 300, 400, 500, 600, 640, 900}

\* containerRect.width, containerRect.height in px of the laid-out container
ContainerSizes == {800, 1000}

Layouts == {"side", "top"}

notLayoutVars == <<evalVars, imageData, histogram, loaderVars, hoverVars,
                   storageVars>>

\* a variant of the ratio computation without the clamp
splitRatio_unclamped(mouse, size) == FDiv(mouse, size)

\* Math.max(0.2, Math.min(0.8, mouse / size))
splitRatio(mouse, size) ==
    Max(Scale \div 5, Min((4 * Scale) \div 5, FDiv(mouse, size)))

\* mousedown on the splitter
SplitterMouseDown ==
    /\ isDragging' = TRUE
    /\ UNCHANGED <<currentLayout, sideSplitRatio, topSplitRatio, notLayoutVars>>

\* mousemove on the document
DocumentMouseMove ==
    \E mouse \in MouseOffsets, size \in ContainerSizes :
      /\ IF ~isDragging
         THEN UNCHANGED <<sideSplitRatio, topSplitRatio>>
         ELSE IF currentLayout = "side"
         THEN /\ sideSplitRatio' = splitRatio(mouse, size)
              /\ UNCHANGED topSplitRatio
         ELSE /\ topSplitRatio' = splitRatio(mouse, size)
              /\ UNCHANGED sideSplitRatio
      /\ UNCHANGED <<isDragging, currentLayout, notLayoutVars>>

\* mouseup on the document
DocumentMouseUp ==
    /\ isDragging' = FALSE
    /\ UNCHANGED <<currentLayout, sideSplitRatio, topSplitRatio, notLayoutVars>>

\* setLayout(layout), from the clicks on sideLayoutBtn and topLayoutBtn
SetLayout ==
    \E layout \in Layouts :
      /\ currentLayout' = (IF layout = "top" THEN "top" ELSE "side")
      /\ UNCHANGED <<isDragging, sideSplitRatio, topSplitRatio, notLayoutVars>>

InitLayoutSpec ==
    /\ rev = "part_009"
    /\ tf = "none"
    /\ peakBrightness = 1000
    /\ calls = <<>>
    /\ arg = 0
    /\ value = 0
    /\ imageData = <<>>
    /\ histogram = <<>>
    /\ InitUI

NextLayout ==
    \/ SplitterMouseDown
    \/ DocumentMouseMove
    \/ DocumentMouseUp
    \/ SetLayout

SpecLayout == InitLayoutSpec /\ [][NextLayout]_vars

(***************************************************************************)
(* Properties                                                              *)
(***************************************************************************)
\* resolution of the arithmetic on HLG values in [0, 12]: 2e-4
HLGTol == (2 * Scale) \div 10^4

\* resolution on a luminance in [0, peak]: 1e-4 of the peak, in milli-nits
NitTol(peak) == (peak * NitScale) \div 10^4

\* resolution on a PQ signal: 5e-5
PQTol == (5 * Scale) \div 10^5

\* resolution on a PQ round trip: 1e-3 of the value plus 1e-3
PQRoundTripTol(x) == x \div 10^3 + Scale \div 10^3

\* C1: HLG.decode(HLG.encode(x)) returns x for every scene-light value x in
\* [0, 12], in the revisions of the HLG module the claim names.
C1_HLGDecodeEncode ==
    (tf = "HLG" /\ rev \in {"hlgjs_1", "hlgjs_2", "part_006"}
        /\ calls = <<"encode", "decode">>)
    => Abs(value - arg) <= HLGTol

\* C2: HLG.encode(1/12) equals 0.5 and HLG.decode(0.5) equals 1/12.
C2_HLGThreshold ==
    (tf = "HLG" /\ rev = "hlgjs_1")
    => /\ (calls = <<"encode">> /\ arg = OneTwelfth)
            => Abs(value - Scale \div 2) <= HLGTol
       /\ (calls = <<"decode">> /\ arg = Scale \div 2)
            => Abs(value - OneTwelfth) <= HLGTol

\* C3: HLG.encode(HLG.decode(s)) returns s for every signal s in [0, 1].
C3_HLGEncodeDecode ==
    (tf = "HLG" /\ rev \in {"hlgjs_1", "part_006"}
        /\ calls = <<"decode", "encode">>)
    => Abs(value - arg) <= HLGTol

\* C4: HLG.encode and HLG.decode return the same value for the same
\* argument under any two peak-brightness settings.
C4_HLGPeakIndependent ==
    (tf = "HLG" /\ rev \in {"part_009", "hlgjs_1"})
    => /\ calls = <<"encode">>
            => \A p \in PeakOptions : HLG_encode(rev, arg, p) = value
       /\ calls = <<"decode">>
            => \A p \in PeakOptions : HLG_decode(rev, arg, p) = value

\* C5: for every peak option and every luminance n in [0, peak],
\* HLG.signalToNits(HLG.nitsToSignal(n, peak), peak) returns n.
C5_NitsRoundTrip ==
    (rev \in {"hlgjs_1", "hlgjs_2", "part_007"}
        /\ calls = <<"nitsToSignal", "signalToNits">>)
    => Abs(value - arg) <= NitTol(peakBrightness)

\* C5 witness: a positive luminance below the peak has gone through
\* nitsToSignal and signalToNits at a peak other than the default
C5_Witness ==
    /\ rev = "part_007"
    /\ calls = <<"nitsToSignal", "signalToNits">>
    /\ peakBrightness = 4000
    /\ arg > 0
    /\ arg < peakBrightness * NitScale
    /\ Abs(value - arg) <= NitTol(peakBrightness)

\* C6: HLG.signalToNits(s, p) equals HLG.decode(s) raised to the system
\* gamma 1.2, multiplied by the peak p in nits with no further scale factor.
C6_HLGEotfIsOotfOfDecode ==
    (rev \in {"hlgjs_1", "hlgjs_2"} /\ calls = <<"signalToNits">>)
    => Abs(value - FMul(FPow(HLG_decode(rev, arg, peakBrightness), HLG_systemGamma),
                        peakBrightness * NitScale))
         <= NitTol(peakBrightness)

\* the revisions the monotonicity claim is read on
C7Revs == {"srgb_js", "histogram_ts", "hlgjs_1", "part_006"}

\* C7: each encode is monotonically non-decreasing on its valid domain:
\* x <= y implies encode(x) <= encode(y).
C7_EncodeMonotone ==
    (rev \in C7Revs /\ calls = <<"encode">>)
    => \A y \in LinearInputs(tf) :
          y >= arg => EncodeOf(rev, tf, y, peakBrightness) >= value

\* C8 as stated: for each of the three transfer functions encode(0) equals 0
\* and decode(0) equals 0.
C8_ZeroMapsToZero ==
    (calls \in {<<"encode">>, <<"decode">>} /\ arg = 0) => value = 0

\* C8 as amended: decode(0) equals 0 for all three, encode(0) equals 0 for
\* sRGB and HLG, and PQ.encode(0) is c1^m2, a positive number not above 1e-6.
C8_ZeroMapsToZeroAmended ==
    /\ (calls = <<"decode">> /\ arg = 0) => value = 0
    /\ (calls = <<"encode">> /\ arg = 0 /\ tf \in {"sRGB", "HLG"}) => value = 0
    /\ (calls = <<"encode">> /\ arg = 0 /\ tf = "PQ")
          => (value > 0 /\ value <= Scale \div 10^6)

\* C8 witness: PQ.encode has been applied to 0 and has returned a positive number
C8_Witness ==
    /\ tf = "PQ"
    /\ rev = "histogram_ts"
    /\ calls = <<"encode">>
    /\ arg = 0
    /\ value > 0

\* C9: PQ.encode(100.0) equals 1.0 and PQ.encode(1.0) is approximately 0.508078.
C9_PQReferencePoints ==
    (tf = "PQ" /\ rev \in {"histogram_ts", "part_005"} /\ calls = <<"encode">>)
    => /\ arg = 100 * Scale => value = Scale
       /\ arg = Scale => Abs(value - 508078) <= PQTol

\* C10: PQ.decode(PQ.encode(x)) returns x (approximately) for every relative
\* linear value x in [0, 100].
C10_PQDecodeEncode ==
    (tf = "PQ" /\ rev \in {"histogram_ts", "script_js"}
        /\ calls = <<"encode", "decode">>)
    => Abs(value - arg) <= PQRoundTripTol(arg)

\* resolution on an sRGB round trip: 5e-6
sRGBTol == (5 * Scale) \div 10^6

\* C11: sRGB.decode(sRGB.encode(x)) returns x and sRGB.encode(sRGB.decode(y))
\* returns y for all x and y in [0, 1], and an input of the linear segment of
\* encode (x <= 0.0031308) gets an encoded value of the linear segment of
\* decode (<= 0.04045).
C11_sRGBRoundTrip ==
    (tf = "sRGB" /\ rev = "srgb_js")
    => /\ (calls \in {<<"encode", "decode">>, <<"decode", "encode">>})
            => Abs(value - arg) <= sRGBTol
       /\ (calls = <<"encode">> /\ arg <= sRGB_encodeThreshold)
            => value <= sRGB_decodeThreshold

\* C11 witness: a positive input of the linear segment has been encoded and
\* decoded back
C11_Witness ==
    /\ tf = "sRGB"
    /\ rev = "srgb_js"
    /\ calls = <<"encode", "decode">>
    /\ arg > 0
    /\ arg <= sRGB_encodeThreshold
    /\ Abs(value - arg) <= sRGBTol

\* C12: sRGB.encode clamps out-of-range input: every input greater than 1.0
\* encodes to 1.0 and every negative input encodes to 0.
C12_sRGBEncodeClamps ==
    (tf = "sRGB" /\ rev = "srgb_js" /\ calls = <<"encode">>)
    => /\ arg > Scale => value = Scale
       /\ arg < 0 => value = 0

\* C19: PQ.decode never returns NaN: for every input signal, also below 0 and
\* above 1, the result is a finite non-negative number.
C19_PQDecodeNeverNaN ==
    (tf = "PQ" /\ rev \in {"histogram_ts", "part_009", "script_js"}
        /\ calls = <<"decode">>)
    => (IsNumber(value) /\ value >= 0)

\* C20: HLG.encode never evaluates the logarithm on a non-positive argument:
\* for every real input the logarithmic segment, when selected, has a
\* strictly positive argument, so encode never returns NaN or -Infinity.
C20_HLGEncodeLogArgPositive ==
    (tf = "HLG" /\ rev \in {"hlgjs_1", "script_js"} /\ calls = <<"encode">>)
    => IsNumber(value)

\* C20 witness: the encode of src/script.js has taken its logarithmic segment
\* on the first input above 1/12 and has returned a number
C20_Witness ==
    /\ tf = "HLG"
    /\ rev = "script_js"
    /\ calls = <<"encode">>
    /\ arg = OneTwelfth + 1
    /\ IsNumber(value)
    /\ value >= Scale \div 2

\* the four series of a histogram
Series(h) == <<h.r, h.g, h.b, h.luminance>>

NonZeroBins(f) == {k \in DOMAIN f : f[k] # 0}

RECURSIVE SumOver(_, _)
SumOver(f, ks) ==
    IF ks = {} THEN 0
    ELSE LET k == CHOOSE j \in ks : TRUE
         IN  FAdd(f[k], SumOver(f, ks \ {k}))

\* sum of the bins of a series (the zero bins add nothing)
SumOf(f) == SumOver(f, NonZeroBins(f))

\* calculateHistogram has returned
Returned == histogram # <<>>

PixelCount == imageData[1].width * imageData[1].height

Uniform == \A i \in DOMAIN imageData[1].data : imageData[1].data[i] = imageData[1].data[1]

\* resolution on a sum of percentages: 1e-5
HistTol == Scale \div 10^5

\* C13: for every non-empty image each of the four series returned by
\* calculateHistogram sums to 100.
C13_SeriesSumTo100 ==
    (Returned /\ PixelCount > 0)
    => \A n \in 1..4 :
          LET total == SumOf(Series(histogram[1])[n])
          IN  IsNumber(total) /\ Abs(total - 100 * Scale) <= HistTol

\* C14: calculateHistogram rejects an image of zero pixels: it never returns
\* for such an input a histogram whose bins are NaN or all zero.
C14_ZeroPixelsRejected ==
    (Returned /\ PixelCount = 0)
    => \E n \in 1..4 :
          \E k \in DOMAIN Series(histogram[1])[n] :
             LET bin == Series(histogram[1])[n][k]
             IN  IsNumber(bin) /\ bin # 0

\* C15: for an image whose pixels all have the same colour, each series has
\* exactly one non-zero bin, and that bin holds 100 percent.
C15_UniformImageOneBin ==
    (Returned /\ rev \in {"script_js", "part_011"} /\ PixelCount > 0 /\ Uniform)
    => \A n \in 1..4 :
          LET f == Series(histogram[1])[n]
          IN  /\ Cardinality(NonZeroBins(f)) = 1
              /\ \A k \in NonZeroBins(f) : f[k] = 100 * Scale

\* C15 witness: a 2x2 raster of red pixels has been binned, all of its red
\* channel in the last bin
C15_Witness ==
    /\ Returned
    /\ rev = "part_011"
    /\ imageData[1].width = 2
    /\ imageData[1].height = 2
    /\ \A i \in 1..4 : imageData[1].data[i] = <<255, 0, 0>>
    /\ histogram[1].r[bins_script_js - 1] = 100 * Scale

\* C16: for the 2x2 raster (0,0,0), (255,255,255), (128,128,128), (64,64,64)
\* the luminance series has exactly 4 non-zero bins out of 100, each holding
\* 25 percent, black in the first bin and white in the last.
C16_FourGreys ==
    (Returned /\ rev \in {"script_js", "histogram_ts"}
        /\ imageData[1].width = 2 /\ imageData[1].height = 2
        /\ imageData[1].data = <<<<0, 0, 0>>, <<255, 255, 255>>,
                                 <<128, 128, 128>>, <<64, 64, 64>>>>)
    => LET f == histogram[1].luminance
       IN  /\ DOMAIN f = 0..99
           /\ Cardinality(NonZeroBins(f)) = 4
           /\ \A k \in NonZeroBins(f) : f[k] = 25 * Scale
           /\ {0, 99} \subseteq NonZeroBins(f)

\* the bin of a linear-light value among 100 equal-width bins, top bin inclusive
C17_Bin(v) == IF v >= Scale THEN 99 ELSE (v * 100) \div Scale

\* C17: calculateHistogram bins linear-light values: each channel is rescaled
\* to [0, 1] and sRGB-decoded before binning, luminance is 0.2126 R + 0.7152 G
\* + 0.0722 B of the linear channels, and each series has exactly 100 bins.
C17_LinearLightBins ==
    (Returned /\ rev \in {"histogram_ts", "script_js"} /\ PixelCount > 0)
    => /\ \A n \in 1..4 : DOMAIN Series(histogram[1])[n] = 0..99
       /\ \A i \in DOMAIN imageData[1].data :
             LET px == imageData[1].data[i]
                 lin(c) == sRGB_decode(FDiv(px[c], 255))
                 lum == FMul(212600, lin(1)) + FMul(715200, lin(2)) + FMul(72200, lin(3))
             IN  /\ \A c \in 1..3 : C17_Bin(lin(c)) \in NonZeroBins(Series(histogram[1])[c])
                 /\ C17_Bin(lum) \in NonZeroBins(histogram[1].luminance)

\* C18: every pixel is assigned, in each of the four series, a bin index
\* within 0..N-1, and a full-scale channel value falls in the last bin N-1.
C18_BinIndexInRange ==
    (Returned /\ rev \in {"script_js", "part_011"} /\ PixelCount > 0)
    => /\ \A n \in 1..4 :
             LET f == Series(histogram[1])[n]
             IN  /\ DOMAIN f = 0..(bins_script_js - 1)
                 /\ \A k \in DOMAIN f : IsNumber(f[k]) /\ f[k] >= 0
       /\ \A i \in DOMAIN imageData[1].data :
             LET px == imageData[1].data[i]
             IN  /\ \A c \in 1..3 :
                       px[c] = ByteMax => Series(histogram[1])[c][bins_script_js - 1] > 0
                 /\ px = <<ByteMax, ByteMax, ByteMax>>
                       => histogram[1].luminance[bins_script_js - 1] > 0

\* C18 witness: a raster with a white pixel has been binned and the last bin
\* of the red and of the luminance series holds it
C18_Witness ==
    /\ Returned
    /\ rev = "script_js"
    /\ \E i \in DOMAIN imageData[1].data : imageData[1].data[i] = <<255, 255, 255>>
    /\ histogram[1].r[bins_script_js - 1] > 0
    /\ histogram[1].luminance[bins_script_js - 1] > 0

\* C21: HLG.signalToNits and HLG.nitsToSignal called with a peak brightness
\* of zero or below never return NaN or an infinity.
C21_InvalidPeakNoNaN ==
    (rev \in {"hlgjs_1", "hlgjs_2"} /\ peakBrightness <= 0
        /\ calls \in {<<"signalToNits">>, <<"nitsToSignal">>})
    => IsNumber(value)

\* C22: encode and decode are pure: a call leaves the source unit, the
\* raster and the global peakBrightness as they were, and its result is a
\* function of its argument alone, the same under every setting of the
\* ambient peakBrightness.
C22_Pure ==
    [][(calls' # calls /\ rev \in {"part_009", "hlgjs_1"}
          /\ Last(calls') \in {"encode", "decode"})
       => /\ rev' = rev
          /\ peakBrightness' = peakBrightness
          /\ imageData' = imageData
          /\ LET x == IF calls = <<>> THEN arg' ELSE value
             IN  \A p \in PeakOptions :
                    value' = (IF Last(calls') = "encode"
                              THEN EncodeOf(rev, tf', x, p)
                              ELSE DecodeOf(rev, tf', x, p))]_vars

\* no event of a loader is pending
LoaderQuiet ==
    /\ imgLoading = <<>>
    /\ \A u \in Urls : proxyLoading[u] = 0
    /\ \A f \in Files : readerLoading[f] = 0

\* C23: once a URL load has succeeded and every pending event has been
\* handled, imageData is the raster of that URL's image at its natural
\* width and height, and histogram is the histogram of that raster.
C23_URLImageKept ==
    (LoaderQuiet /\ loaded # <<>>)
    => LET full == [width |-> NaturalSize(loaded[1])[1],
                    height |-> NaturalSize(loaded[1])[2],
                    content |-> loaded[1]]
       IN  imageData = <<full>> /\ histogram = <<HistogramOf(full)>>

\* a URL load is in flight: its proxy image is loading, or its fallback is
URLLoadInFlight ==
    \/ \E u \in Urls : proxyLoading[u] > 0
    \/ imgLoading # <<>> /\ imgLoading[1].why = "fallback"

\* C27: the load button is disabled if and only if a URL load is in flight.
C27_ButtonIffLoading == loadBtnDisabled <=> URLLoadInFlight

\* no callback scheduled by a mousemove is pending
HoverQuiet == frames = <<>> /\ updateGraphTimeout = <<>>

\* C24: once the pointer has left the image and every pending callback has
\* run, currentHoverPixel is null and no hover marker is on the graphs.
C24_LeaveClearsHover ==
    (pointer = <<>> /\ HoverQuiet) => (currentHoverPixel = <<>> /\ marker = <<>>)

\* C25: when the pointer rests on a pixel of the image and every pending
\* callback has run, the graphs show that pixel.
C25_RestingPixelShown ==
    (pointer # <<>> /\ HoverQuiet) => marker = pointer

\* C26: two successive graph updates made for pointer movements are at
\* least 16 ms apart.
C26_UpdatesThrottled ==
    Len(issuedAt) = 2 => issuedAt[2] - issuedAt[1] >= THROTTLE_DELAY

\* C28: loadImageState returns a stored image state only if its timestamp
\* is at most 7 days before the current time; an older entry is removed
\* and null is returned; an entry that cannot be read or parsed yields
\* null.
C28_LoadImageState ==
    [][(page = "loading" /\ page' = "open")
       => /\ savedImageState' # <<>>
             => /\ stored # <<>>
                /\ stored[1].parses
                /\ savedImageState' = stored
                /\ now - stored[1].timestamp <= 7 * 24 * 60 * 60 * 1000
          /\ (~readFailed' /\ stored # <<>> /\ stored[1].parses
                /\ now - stored[1].timestamp > 7 * 24 * 60 * 60 * 1000)
             => (savedImageState' = <<>> /\ stored' = <<>>)
          /\ (stored # <<>> /\ ~stored[1].parses) => savedImageState' = <<>>
          /\ readFailed' => savedImageState' = <<>>]_vars

\* C28 witness: loadImageState has returned a state that is exactly seven
\* days old
C28_Witness ==
    /\ page = "open"
    /\ savedImageState # <<>>
    /\ now - savedImageState[1].timestamp = 7 * 24 * 60 * 60 * 1000

C30_SplitRatios ==
    /\ [](/\ 2 * Scale <= 10 * sideSplitRatio
          /\ 10 * sideSplitRatio <= 8 * Scale
          /\ 2 * Scale <= 10 * topSplitRatio
          /\ 10 * topSplitRatio <= 8 * Scale)
    /\ [][((sideSplitRatio' # sideSplitRatio)
              => (isDragging /\ currentLayout = "side"
                    /\ topSplitRatio' = topSplitRatio))
          /\ ((topSplitRatio' # topSplitRatio)
              => (isDragging /\ currentLayout = "top"
                    /\ sideSplitRatio' = sideSplitRatio))
          /\ ((currentLayout' # currentLayout)
              => (sideSplitRatio' = sideSplitRatio
                    /\ topSplitRatio' = topSplitRatio))]_vars

\* C30 witness: drags in both layouts ran into the two ends of the range,
\* and the layout was switched back afterwards
C30_Witness ==
    /\ 10 * sideSplitRatio = 8 * Scale
    /\ 10 * topSplitRatio = 2 * Scale
    /\ currentLayout = "side"
    /\ ~isDragging

====
